---------------------------- MODULE Spec2Model ----------------------------
(* A model of the LINE Webtoon source for Aidoku (src/src/helper.rs and    *)
(* src/src/lib.rs).  Text is a sequence of one-character strings, so that  *)
(* the substring searches, slices and concatenations of the source are     *)
(* computed character by character.  Offsets are 0-based as in Rust.  An   *)
(* Option is a sequence of length <= 1: None is <<>>, Some(x) is <<x>>.    *)
EXTENDS Integers, Sequences, FiniteSets, TLC

\* pc: where the running operation stands ("idle": none is running).
\* input, output: the arguments and the return value of the operation.
\* manga: the `mut manga` of get_manga_update while it runs.
\* requests: the HTTP exchanges of the running operation, in order.
VARIABLES pc, input, output, manga, requests

vars == <<pc, input, output, manga, requests>>

-----------------------------------------------------------------------------
(* Bounds of the model.                                                    *)

\* Largest number of chunks a generated URL is made of.
MaxUrlParts == 4

\* Largest number of element objects in a generated episodeList array.
MaxEpisodes == 3

\* Largest number of item anchors on a generated listing page.
MaxItems == 2

\* Largest number of images a generated viewer page selects.
MaxImages == 2

-----------------------------------------------------------------------------
(* Option and text primitives (core::option, core::str).                   *)

None == <<>>
Some(x) == <<x>>
IsSome(o) == o # <<>>
Unwrap(o) == o[1]

SetMin(S) == CHOOSE x \in S : \A y \in S : x <= y

\* s[a..b] of Rust: the characters at offsets a, ..., b-1.
Slice(s, a, b) == SubSeq(s, a + 1, b)

\* Whether pat occurs in s at offset i.
MatchesAt(s, pat, i) ==
    /\ i + Len(pat) <= Len(s)
    /\ \A k \in 1..Len(pat) : s[i + k] = pat[k]

\* str::find with a string pattern: the offset of the first occurrence.
str_find(s, pat) ==
    LET hits == {i \in 0..(Len(s) - Len(pat)) : MatchesAt(s, pat, i)}
    IN  IF hits = {} THEN None ELSE Some(SetMin(hits))

\* str::contains.
str_contains(s, pat) == IsSome(str_find(s, pat))

\* str::split on one character: the pieces between the separators.
RECURSIVE str_split(_, _)
str_split(s, ch) ==
    LET p == str_find(s, <<ch>>)
    IN  IF p = None THEN <<s>>
        ELSE <<Slice(s, 0, Unwrap(p))>>
                 \o str_split(Slice(s, Unwrap(p) + 1, Len(s)), ch)

\* str::trim: leading and trailing white space removed.
RECURSIVE str_trim(_)
str_trim(s) ==
    IF s = <<>> THEN s
    ELSE IF s[1] = " " THEN str_trim(Tail(s))
    ELSE IF s[Len(s)] = " " THEN str_trim(Slice(s, 0, Len(s) - 1))
    ELSE s

\* str::replace: every non-overlapping occurrence of pat replaced by to.
RECURSIVE str_replace(_, _, _)
str_replace(s, pat, to) ==
    LET p == str_find(s, pat)
    IN  IF p = None THEN s
        ELSE Slice(s, 0, Unwrap(p)) \o to
                 \o str_replace(Slice(s, Unwrap(p) + Len(pat), Len(s)), pat, to)

\* map(|s| String::from(s.trim())) over the pieces.
TrimAll(ss) == [i \in 1..Len(ss) |-> str_trim(ss[i])]

\* Vec::reverse.
Reverse(s) == [i \in 1..Len(s) |-> s[Len(s) + 1 - i]]

\* The concatenation of a sequence of texts.
RECURSIVE Flatten(_)
Flatten(ss) == IF ss = <<>> THEN <<>> ELSE Head(ss) \o Flatten(Tail(ss))

NonEmpty(s) == s # <<>>

-----------------------------------------------------------------------------
(* helper.rs: extract_title_no.                                            *)

\* "title_no="
TITLE_NO_KEY == <<"t","i","t","l","e","_","n","o","=">>

\* A faulty variant: skips one character too few after the key.
extract_title_no_short_skip(url) ==
    LET pos == str_find(url, TITLE_NO_KEY)
    IN  IF pos = None THEN None
        ELSE LET start == Unwrap(pos) + 8
                 rest == Slice(url, start, Len(url))
                 amp == str_find(rest, <<"&">>)
                 end == IF amp = None THEN Len(rest) ELSE Unwrap(amp)
             IN  Some(Slice(rest, 0, end))

extract_title_no(url) ==
    LET pos == str_find(url, TITLE_NO_KEY)
    IN  IF pos = None THEN None
        ELSE LET start == Unwrap(pos) + 9
                 rest == Slice(url, start, Len(url))
                 amp == str_find(rest, <<"&">>)
                 end == IF amp = None THEN Len(rest) ELSE Unwrap(amp)
             IN  Some(Slice(rest, 0, end))

-----------------------------------------------------------------------------
(* helper.rs: parse_manga_item.  An item anchor is what the host's HTML    *)
(* queries answer for it: href and data_title_no are attr(..) results;     *)
(* title, author and genre are select_first(..) results holding the text() *)
(* result of the node; cover is select_first(".image_wrap img") holding    *)
(* the attr("src") result of the node.                                     *)

\* Manga::default() with the fields parse_manga_item and get_manga_update set.
DefaultManga ==
    [key |-> <<>>, title |-> <<>>, cover |-> None, url |-> None,
     authors |-> None, tags |-> None, description |-> None,
     status |-> "Unknown", content_rating |-> "Unknown",
     viewer |-> "Unknown", chapters |-> None]

\* split('/'), trim, drop the empty names.
AuthorsOfItem(author_text) ==
    SelectSeq(TrimAll(str_split(author_text, "/")), NonEmpty)

\* A faulty variant: prefers the href's title_no to the data-title-no attribute.
parse_manga_item_href_first(item) ==
    IF item.href = None THEN None
    ELSE
    LET href == Unwrap(item.href)
        from_href == extract_title_no(href)
        title_no == IF IsSome(from_href) THEN from_href ELSE item.data_title_no
        title == IF IsSome(item.title) /\ IsSome(Unwrap(item.title))
                 THEN Unwrap(Unwrap(item.title)) ELSE <<>>
    IN  IF title_no = None \/ title = <<>> THEN None
        ELSE Some([DefaultManga EXCEPT !.key = Unwrap(title_no),
                       !.title = title, !.url = Some(href),
                       !.viewer = "Webtoon"])

parse_manga_item(item) ==
    IF item.href = None THEN None
    ELSE
    LET href == Unwrap(item.href)
        title_no == IF IsSome(item.data_title_no) THEN item.data_title_no
                    ELSE extract_title_no(href)
        title == IF IsSome(item.title) /\ IsSome(Unwrap(item.title))
                 THEN Unwrap(Unwrap(item.title)) ELSE <<>>
        cover == IF IsSome(item.cover) THEN Unwrap(item.cover) ELSE None
        authors == IF IsSome(item.author) /\ IsSome(Unwrap(item.author))
                   THEN AuthorsOfItem(Unwrap(Unwrap(item.author))) ELSE <<>>
        tags == IF IsSome(item.genre) /\ IsSome(Unwrap(item.genre))
                THEN Some(<<Unwrap(Unwrap(item.genre))>>) ELSE None
    IN  IF title_no = None THEN None
        ELSE IF title = <<>> THEN None
        ELSE Some([DefaultManga EXCEPT
                       !.key = Unwrap(title_no),
                       !.title = title,
                       !.cover = cover,
                       !.url = Some(href),
                       !.viewer = "Webtoon",
                       !.authors = IF authors # <<>> THEN Some(authors) ELSE None,
                       !.tags = tags])

-----------------------------------------------------------------------------
(* Numbers.  An i64 is a sign and a decimal magnitude (a sequence of the   *)
(* digits 0..9 without leading zeros), since the values of the source      *)
(* (millisecond timestamps) exceed the integers TLC computes with.  An i32 *)
(* is an integer.  An f32 that holds a converted i32 is a sign, a          *)
(* significand m <= 2^24 and an exponent e: its value is m * 2^e.          *)

DigitChars == <<"0","1","2","3","4","5","6","7","8","9">>

\* char::is_ascii_digit.
is_ascii_digit(ch) == \E k \in 1..10 : DigitChars[k] = ch

DigitValue(ch) == (CHOOSE k \in 1..10 : DigitChars[k] = ch) - 1

RECURSIVE StripZeros(_)
StripZeros(mag) ==
    IF Len(mag) > 1 /\ mag[1] = 0 THEN StripZeros(Tail(mag)) ELSE mag

\* a <= b for magnitudes without leading zeros.
MagLE(a, b) ==
    \/ Len(a) < Len(b)
    \/ /\ Len(a) = Len(b)
       /\ \/ a = b
          \/ \E k \in 1..Len(a) :
                /\ a[k] < b[k]
                /\ \A j \in 1..(k - 1) : a[j] = b[j]

\* i64::MAX = 2^63 - 1 and the magnitude of i64::MIN = -2^63.
I64MaxMag == <<9,2,2,3,3,7,2,0,3,6,8,5,4,7,7,5,8,0,7>>
I64MinMag == <<9,2,2,3,3,7,2,0,3,6,8,5,4,7,7,5,8,0,8>>

\* str::parse::<i64> of a text made of digits and '-' only: an optional
\* leading '-', then at least one digit and nothing else, within the range.
ParseI64(num_str) ==
    LET neg == num_str # <<>> /\ num_str[1] = "-"
        ds == IF neg THEN Tail(num_str) ELSE num_str
    IN  IF ds = <<>> \/ (\E k \in 1..Len(ds) : ~is_ascii_digit(ds[k]))
        THEN None
        ELSE LET mag == StripZeros([k \in 1..Len(ds) |-> DigitValue(ds[k])])
             IN  IF ~MagLE(mag, IF neg THEN I64MinMag ELSE I64MaxMag)
                 THEN None
                 ELSE Some([neg |-> neg /\ mag # <<0>>, mag |-> mag])

\* ms / 1000 on i64: the quotient truncated towards zero.
I64Div1000(v) ==
    LET mag == IF Len(v.mag) <= 3 THEN <<0>>
               ELSE SubSeq(v.mag, 1, Len(v.mag) - 3)
    IN  [neg |-> v.neg /\ mag # <<0>>, mag |-> mag]

\* The low 32 bits of a magnitude, as two 16-bit halves.
RECURSIVE Low32(_, _, _)
Low32(mag, hi, lo) ==
    IF mag = <<>> THEN <<hi, lo>>
    ELSE LET lo2 == lo * 10 + Head(mag)
             hi2 == hi * 10 + (lo2 \div 65536)
         IN  Low32(Tail(mag), hi2 % 65536, lo2 % 65536)

\* `as i32` on an i64: the low 32 bits, read as a two's-complement number.
AsI32(v) ==
    LET bits == Low32(v.mag, 0, 0)
        lo == IF v.neg THEN (65536 - bits[2]) % 65536 ELSE bits[2]
        hi == IF v.neg
              THEN (65535 - bits[1] + (IF bits[2] = 0 THEN 1 ELSE 0)) % 65536
              ELSE bits[1]
    IN  IF hi >= 32768 THEN (hi - 65536) * 65536 + lo ELSE hi * 65536 + lo

RECURSIVE Pow2(_)
Pow2(k) == IF k = 0 THEN 1 ELSE 2 * Pow2(k - 1)

\* `as f32` on an i32: exact below 2^24, else rounded to 24 significant
\* bits, ties to even.
AsF32(n) ==
    IF n = -2147483647 - 1 THEN [neg |-> TRUE, m |-> 8388608, e |-> 8]
    ELSE
    LET a == IF n < 0 THEN 0 - n ELSE n
        e == SetMin({k \in 0..7 : a \div Pow2(k) < 16777216})
        q == a \div Pow2(e)
        r == a % Pow2(e)
        up == e > 0 /\ (2 * r > Pow2(e) \/ (2 * r = Pow2(e) /\ q % 2 = 1))
    IN  [neg |-> n < 0, m |-> IF up THEN q + 1 ELSE q, e |-> e]

RECURSIVE NatToText(_)
NatToText(a) ==
    IF a < 10 THEN <<DigitChars[a + 1]>>
    ELSE NatToText(a \div 10) \o <<DigitChars[(a % 10) + 1]>>

\* format!("{n}") of an i32.
I32ToText(n) ==
    IF n = -2147483647 - 1
    THEN <<"-","2","1","4","7","4","8","3","6","4","8">>
    ELSE IF n < 0 THEN <<"-">> \o NatToText(0 - n)
    ELSE NatToText(n)

-----------------------------------------------------------------------------
(* helper.rs: the mobile API's JSON.                                       *)

\* "https://www.webtoons.com"
BASE_URL_HELPER ==
    <<"h","t","t","p","s",":","/","/","w","w","w",".","w","e","b","t","o","o","n","s",".","c","o","m">>

\* "https://webtoon-phinf.pstatic.net"
THUMB_CDN_HELPER ==
    <<"h","t","t","p","s",":","/","/","w","e","b","t","o","o","n","-","p","h","i","n","f",".","p","s","t","a","t","i","c",".","n","e","t">>

K_episodeNo == <<"e","p","i","s","o","d","e","N","o">>
K_episodeTitle == <<"e","p","i","s","o","d","e","T","i","t","l","e">>
K_viewerLink == <<"v","i","e","w","e","r","L","i","n","k">>
K_thumbnail == <<"t","h","u","m","b","n","a","i","l">>
K_exposureDateMillis ==
    <<"e","x","p","o","s","u","r","e","D","a","t","e","M","i","l","l","i","s">>

\* The text between "key":" and the next quote.
json_str_value(json, key) ==
    LET search == <<"\"">> \o key \o <<"\"", ":", "\"">>
        pos == str_find(json, search)
    IN  IF pos = None THEN None
        ELSE LET start == Unwrap(pos) + Len(search)
                 rest == Slice(json, start, Len(json))
                 end == str_find(rest, <<"\"">>)
             IN  IF end = None THEN None
                 ELSE Some(Slice(rest, 0, Unwrap(end)))

\* The loop of json_num_value from offset i on: digits and '-' are
\* collected, other characters are skipped until the first one is found
\* and end the run after it.
RECURSIVE NumRun(_, _, _)
NumRun(rest, i, num_str) ==
    IF i >= Len(rest) THEN num_str
    ELSE LET ch == rest[i + 1]
         IN  IF is_ascii_digit(ch) \/ ch = "-"
             THEN NumRun(rest, i + 1, Append(num_str, ch))
             ELSE IF num_str # <<>> THEN num_str
             ELSE NumRun(rest, i + 1, num_str)

\* The number that follows "key": .
json_num_value(json, key) ==
    LET search == <<"\"">> \o key \o <<"\"", ":">>
        pos == str_find(json, search)
    IN  IF pos = None THEN None
        ELSE LET start == Unwrap(pos) + Len(search)
                 rest == Slice(json, start, Len(json))
             IN  ParseI64(NumRun(rest, 0, <<>>))

parse_single_episode(obj) ==
    LET no == json_num_value(obj, K_episodeNo)
    IN  IF no = None THEN None
        ELSE
        LET episode_no == AsI32(Unwrap(no))
            title == json_str_value(obj, K_episodeTitle)
            viewer_link == json_str_value(obj, K_viewerLink)
            thumb_path == json_str_value(obj, K_thumbnail)
            date_millis == json_num_value(obj, K_exposureDateMillis)
            viewer_url == IF viewer_link = None THEN None
                          ELSE Some(BASE_URL_HELPER \o Unwrap(viewer_link))
            thumbnail == IF thumb_path = None THEN None
                         ELSE Some(THUMB_CDN_HELPER \o Unwrap(thumb_path))
            date_uploaded == IF date_millis = None THEN None
                             ELSE Some(I64Div1000(Unwrap(date_millis)))
            key == IF IsSome(viewer_url) THEN Unwrap(viewer_url)
                   ELSE I32ToText(episode_no)
        IN  Some([key |-> key,
                  title |-> title,
                  chapter_number |-> Some(AsF32(episode_no)),
                  date_uploaded |-> date_uploaded,
                  url |-> viewer_url,
                  thumbnail |-> thumbnail])

\* "\"episodeList\":["
EPISODE_LIST_KEY ==
    <<"\"","e","p","i","s","o","d","e","L","i","s","t","\"",":","[">>

\* The characters the loop of parse_episodes_json acts on; every other
\* character falls to its `_ => {}` arm.  NextMark is the offset of the first
\* of them at or after offset i, or the length of the text.
IsMark(ch) == ch = "{" \/ ch = "}" \/ ch = "]"

NextMark(text, i) ==
    LET marks == {j \in i..(Len(text) - 1) : IsMark(text[j + 1])}
    IN  IF marks = {} THEN Len(text) ELSE SetMin(marks)

\* A faulty variant: ends the scan at any ']' whatever the depth.
RECURSIVE ScanObjects_any_bracket(_, _, _, _, _)
ScanObjects_any_bracket(text, i, depth, obj_start, handed) ==
    LET at == NextMark(text, i)
    IN  IF at >= Len(text) THEN handed
        ELSE
        LET ch == text[at + 1]
        IN  IF ch = "{"
            THEN ScanObjects_any_bracket(text, at + 1, depth + 1,
                     IF depth = 0 THEN Some(at) ELSE obj_start, handed)
            ELSE IF ch = "}"
            THEN IF depth - 1 = 0
                 THEN ScanObjects_any_bracket(text, at + 1, 0, None,
                          IF IsSome(obj_start)
                          THEN Append(handed,
                                      Slice(text, Unwrap(obj_start), at + 1))
                          ELSE handed)
                 ELSE ScanObjects_any_bracket(text, at + 1, depth - 1, obj_start, handed)
            ELSE IF ch = "]" THEN handed
            ELSE ScanObjects_any_bracket(text, at + 1, depth, obj_start, handed)

\* The loop of parse_episodes_json over body_from_list from offset i on,
\* with the object substrings it has handed to parse_single_episode so far.
RECURSIVE ScanObjects(_, _, _, _, _)
ScanObjects(text, i, depth, obj_start, handed) ==
    LET at == NextMark(text, i)
    IN  IF at >= Len(text) THEN handed
        ELSE
        LET ch == text[at + 1]
        IN  IF ch = "{"
            THEN ScanObjects(text, at + 1, depth + 1,
                     IF depth = 0 THEN Some(at) ELSE obj_start, handed)
            ELSE IF ch = "}"
            THEN IF depth - 1 = 0
                 THEN ScanObjects(text, at + 1, 0, None,
                          IF IsSome(obj_start)
                          THEN Append(handed,
                                      Slice(text, Unwrap(obj_start), at + 1))
                          ELSE handed)
                 ELSE ScanObjects(text, at + 1, depth - 1, obj_start, handed)
            ELSE IF ch = "]" /\ depth = 0 THEN handed
            ELSE ScanObjects(text, at + 1, depth, obj_start, handed)

\* The object substrings parse_episodes_json hands to parse_single_episode.
EpisodeObjects(body) ==
    LET pos == str_find(body, EPISODE_LIST_KEY)
    IN  IF pos = None THEN <<>>
        ELSE LET list_start == Unwrap(pos) + 14
                 body_from_list == Slice(body, list_start, Len(body))
             IN  ScanObjects(body_from_list, 0, 0, None, <<>>)

\* chapters.push(chapter) for each object that parses.
RECURSIVE PushParsed(_, _)
PushParsed(objs, chapters) ==
    IF objs = <<>> THEN chapters
    ELSE LET chapter == parse_single_episode(Head(objs))
         IN  PushParsed(Tail(objs),
                        IF IsSome(chapter)
                        THEN Append(chapters, Unwrap(chapter)) ELSE chapters)

\* A faulty variant: forgets chapters.reverse().
parse_episodes_json_unreversed(body) ==
    PushParsed(EpisodeObjects(body), <<>>)

parse_episodes_json(body) ==
    Reverse(PushParsed(EpisodeObjects(body), <<>>))

-----------------------------------------------------------------------------
(* Inputs of the helper functions.                                         *)

\* "title_no=", "&", "20", "x=1", "/viewer", "title_n"
UrlChunks ==
    { TITLE_NO_KEY, <<"&">>, <<"2","0">>, <<"x","=","1">>,
      <<"/","v","i","e","w","e","r">>, <<"t","i","t","l","e","_","n">> }

RECURSIVE UrlsOf(_)
UrlsOf(n) ==
    IF n = 0 THEN {<<>>}
    ELSE LET shorter == UrlsOf(n - 1)
         IN  shorter \cup {u \o c : u \in shorter, c \in UrlChunks}

Urls == UrlsOf(MaxUrlParts)

\* "/list?title_no=20", "/list?title_no=20&x=1", "/list"
ItemHrefs ==
    { None,
      Some(<<"/","l","i","s","t","?","t","i","t","l","e","_","n","o","=","2","0">>),
      Some(<<"/","l","i","s","t","?","t","i","t","l","e","_","n","o","=","2","0","&","x","=","1">>),
      Some(<<"/","l","i","s","t">>) }

\* attr("data-title-no"): absent, "99", or present and empty.
ItemTitleNos == { None, Some(<<"9","9">>), Some(<<>>) }

\* A node that is missing, has no text, has empty text, has text.
ItemTitles == { None, Some(None), Some(Some(<<>>)), Some(Some(<<"T">>)) }

\* "c.jpg"
ItemCovers == { None, Some(None), Some(Some(<<"c",".","j","p","g">>)) }

\* " A / B", " / "
ItemAuthors ==
    { None, Some(None), Some(Some(<<" ","A"," ","/"," ","B">>)),
      Some(Some(<<" ","/"," ">>)) }

\* "Fantasy"
ItemGenres == { None, Some(Some(<<"F","a","n","t","a","s","y">>)) }

Items ==
    [href : ItemHrefs, data_title_no : ItemTitleNos, title : ItemTitles,
     cover : ItemCovers, author : ItemAuthors, genre : ItemGenres]

-----------------------------------------------------------------------------
(* The helper functions as called by the facade: one call per step.        *)

InitIdle ==
    /\ pc = "idle"
    /\ input = None
    /\ output = None
    /\ manga = None
    /\ requests = <<>>

Call_extract_title_no ==
    /\ pc = "idle"
    /\ \E url \in Urls :
          /\ input' = url
          /\ output' = extract_title_no(url)
    /\ pc' = "extract_title_no"
    /\ UNCHANGED <<manga, requests>>

Call_parse_manga_item ==
    /\ pc = "idle"
    /\ \E item \in Items :
          /\ input' = item
          /\ output' = parse_manga_item(item)
    /\ pc' = "parse_manga_item"
    /\ UNCHANGED <<manga, requests>>

\* The call is over; nothing of it is kept.
Return ==
    /\ pc # "idle"
    /\ pc' = "idle"
    /\ input' = None
    /\ output' = None
    /\ manga' = None
    /\ requests' = <<>>

NextHelper ==
    \/ Call_extract_title_no
    \/ Call_parse_manga_item
    \/ Return

SpecHelper == InitIdle /\ [][NextHelper]_vars

-----------------------------------------------------------------------------
(* Inputs of the JSON functions.  An episode object is described by the    *)
(* text of each field's value, or None for a field it does not have, and   *)
(* written the way the API writes it:                                      *)
(* {"episodeNo":1,"episodeTitle":"..","viewerLink":"..","thumbnail":"..",  *)
(*  "exposureDateMillis":123456}.                                          *)

\* "7", "2147483648" (2^31), "4294967297" (2^32 + 1)
EpisodeNoTexts ==
    { None, Some(<<"7">>),
      Some(<<"2","1","4","7","4","8","3","6","4","8">>),
      Some(<<"4","2","9","4","9","6","7","2","9","7">>) }

TitleTexts == { None, Some(<<"b">>) }

\* "/v1"
ViewerLinkTexts == { None, Some(<<"/","v","1">>) }

\* "/t2"
ThumbnailTexts == { None, Some(<<"/","t","2">>) }

\* "1500", "-1500", "1700000000999"
DateMillisTexts ==
    { None, Some(<<"1","5","0","0">>), Some(<<"-","1","5","0","0">>),
      Some(<<"1","7","0","0","0","0","0","0","0","0","9","9","9">>) }

EpisodeDescs ==
    [no : EpisodeNoTexts, title : TitleTexts, link : ViewerLinkTexts,
     thumb : ThumbnailTexts, ms : DateMillisTexts]

\* "key":value for a number, "key":"value" for a string; nothing for None.
NumField(key, v) ==
    IF v = None THEN <<>>
    ELSE << <<"\"">> \o key \o <<"\"", ":">> \o Unwrap(v) >>

StrField(key, v) ==
    IF v = None THEN <<>>
    ELSE << <<"\"">> \o key \o <<"\"", ":", "\"">> \o Unwrap(v) \o <<"\"">> >>

\* The texts of a sequence joined by commas.
RECURSIVE JoinComma(_)
JoinComma(ts) ==
    IF ts = <<>> THEN <<>>
    ELSE IF Len(ts) = 1 THEN ts[1]
    ELSE ts[1] \o <<",">> \o JoinComma(Tail(ts))

ObjectText(d) ==
    <<"{">>
    \o JoinComma(NumField(K_episodeNo, d.no)
                 \o StrField(K_episodeTitle, d.title)
                 \o StrField(K_viewerLink, d.link)
                 \o StrField(K_thumbnail, d.thumb)
                 \o NumField(K_exposureDateMillis, d.ms))
    \o <<"}">>

\* The element objects of generated arrays: two plain episodes, one with a
\* nested object holding an array of objects, one without episodeNo, one
\* whose title text is a closing brace.
ElemKinds == {"plain1", "plain2", "nested", "untitled_no", "brace_in_text"}

ElemText(kind) ==
    CASE kind = "plain1" ->
           \* {"episodeNo":1,"viewerLink":"/v1","exposureDateMillis":1500}
           <<"{","\"","e","p","i","s","o","d","e","N","o","\"",":","1",",","\"","v","i","e","w","e","r","L","i","n","k","\"",":","\"","/","v","1","\"",",","\"","e","x","p","o","s","u","r","e","D","a","t","e","M","i","l","l","i","s","\"",":","1","5","0","0","}">>
      [] kind = "plain2" ->
           \* {"episodeNo":2,"episodeTitle":"b","thumbnail":"/t2"}
           <<"{","\"","e","p","i","s","o","d","e","N","o","\"",":","2",",","\"","e","p","i","s","o","d","e","T","i","t","l","e","\"",":","\"","b","\"",",","\"","t","h","u","m","b","n","a","i","l","\"",":","\"","/","t","2","\"","}">>
      [] kind = "nested" ->
           \* {"episodeNo":3,"x":{"y":[{"episodeNo":9}]}}
           <<"{","\"","e","p","i","s","o","d","e","N","o","\"",":","3",",","\"","x","\"",":","{","\"","y","\"",":","[","{","\"","e","p","i","s","o","d","e","N","o","\"",":","9","}","]","}","}">>
      [] kind = "untitled_no" ->
           \* {"episodeTitle":"d"}
           <<"{","\"","e","p","i","s","o","d","e","T","i","t","l","e","\"",":","\"","d","\"","}">>
      [] kind = "brace_in_text" ->
           \* {"episodeNo":5,"episodeTitle":"}"}
           <<"{","\"","e","p","i","s","o","d","e","N","o","\"",":","5",",","\"","e","p","i","s","o","d","e","T","i","t","l","e","\"",":","\"","}","\"","}">>

\* What precedes the elements: the array under its key, an array under
\* another key, and an empty episodeList array before the filled one.
PrefixKinds == {"list", "other_key", "empty_list_first"}

PrefixText(kind) ==
    CASE kind = "list" ->
           \* {"result":{"episodeList":[
           <<"{","\"","r","e","s","u","l","t","\"",":","{","\"","e","p","i","s","o","d","e","L","i","s","t","\"",":","[">>
      [] kind = "other_key" ->
           \* {"result":{"list":[
           <<"{","\"","r","e","s","u","l","t","\"",":","{","\"","l","i","s","t","\"",":","[">>
      [] kind = "empty_list_first" ->
           \* {"a":{"episodeList":[]},"episodeList":[
           <<"{","\"","a","\"",":","{","\"","e","p","i","s","o","d","e","L","i","s","t","\"",":","[","]","}",",","\"","e","p","i","s","o","d","e","L","i","s","t","\"",":","[">>

\* What follows the elements: the end of the response, another array of
\* objects after the end of the list, and a response cut off in the list.
SuffixKinds == {"closed", "more_objects", "cut_off"}

SuffixText(kind) ==
    CASE kind = "closed" ->
           \* ]},"success":true}
           <<"]","}",",","\"","s","u","c","c","e","s","s","\"",":","t","r","u","e","}">>
      [] kind = "more_objects" ->
           \* ],"more":[{"episodeNo":7}]}}
           <<"]",",","\"","m","o","r","e","\"",":","[","{","\"","e","p","i","s","o","d","e","N","o","\"",":","7","}","]","}","}">>
      [] kind = "cut_off" -> <<>>

ElemLists == UNION {[1..n -> ElemKinds] : n \in 0..MaxEpisodes}

Responses == [prefix : PrefixKinds, elems : ElemLists, suffix : SuffixKinds]

\* The response body: the prefix, the elements separated by commas, the suffix.
BodyOf(r) ==
    PrefixText(r.prefix)
    \o JoinComma([i \in 1..Len(r.elems) |-> ElemText(r.elems[i])])
    \o SuffixText(r.suffix)

-----------------------------------------------------------------------------
(* The JSON functions: one call per step.                                  *)

Call_parse_single_episode ==
    /\ pc = "idle"
    /\ \E d \in EpisodeDescs :
          /\ input' = d
          /\ output' = parse_single_episode(ObjectText(d))
    /\ pc' = "parse_single_episode"
    /\ UNCHANGED <<manga, requests>>

Call_parse_episodes_json ==
    /\ pc = "idle"
    /\ \E r \in Responses :
          /\ input' = r
          /\ output' = parse_episodes_json(BodyOf(r))
    /\ pc' = "parse_episodes_json"
    /\ UNCHANGED <<manga, requests>>

NextJson ==
    \/ Call_parse_single_episode
    \/ Call_parse_episodes_json
    \/ Return

SpecJson == InitIdle /\ [][NextJson]_vars

-----------------------------------------------------------------------------
(* lib.rs: get_manga_update.  The operation blocks on each HTTP request,   *)
(* so it is one step up to its first request and one step per request.  A  *)
(* detail page is what the host's HTML queries answer for it: each         *)
(* select_first(..) result holds the text() result of the node (og_image   *)
(* the attr("content") result), ico_completed whether the node exists.     *)

\* "https://www.webtoons.com"
BASE_URL == BASE_URL_HELPER

\* "/zh-hant"
LANG_PATH == <<"/","z","h","-","h","a","n","t">>

\* "https://m.webtoons.com/api/v1/webtoon"
MOBILE_API ==
    <<"h","t","t","p","s",":","/","/","m",".","w","e","b","t","o","o","n","s",".","c","o","m","/","a","p","i","/","v","1","/","w","e","b","t","o","o","n">>

\* "Writer Info"
WRITER_INFO == <<"W","r","i","t","e","r"," ","I","n","f","o">>

\* The four characters of the Chinese label for "writer info", each named
\* by its code point.
WRITER_INFO_ZH == <<"U+4F5C", "U+5BB6", "U+8CC7", "U+8A0A">>

Ok(v) == [ok |-> TRUE, value |-> v]
Err(e) == [ok |-> FALSE, error |-> e]

\* Request::get(url)?.header("Referer", ..).header("User-Agent", ..)
\* and what came back: status "ok" with the response, or "failed".
Exchange(to, url, status, response) ==
    [to |-> to, url |-> url, headers |-> {"Referer", "User-Agent"},
     status |-> status, response |-> response]

\* format!("{BASE_URL}{LANG_PATH}/originals/a/list?title_no={title_no}")
DetailUrl(m) ==
    IF IsSome(m.url) THEN Unwrap(m.url)
    ELSE BASE_URL \o LANG_PATH
         \o <<"/","o","r","i","g","i","n","a","l","s","/","a","/","l","i","s","t","?","t","i","t","l","e","_","n","o","=">>
         \o m.key

\* format!("{MOBILE_API}/{title_no}/episodes?pageSize=99999")
ApiUrl(title_no) ==
    MOBILE_API \o <<"/">> \o title_no
    \o <<"/","e","p","i","s","o","d","e","s","?","p","a","g","e","S","i","z","e","=","9","9","9","9","9">>

\* split(','), then split('/') of each piece, trim, drop the empty names.
AuthorsOfPage(text) ==
    LET cleaned == str_replace(str_replace(text, WRITER_INFO, <<>>),
                               WRITER_INFO_ZH, <<>>)
        by_comma == str_split(cleaned, ",")
        pieces == Flatten([i \in 1..Len(by_comma) |->
                               str_split(by_comma[i], "/")])
    IN  SelectSeq(TrimAll(pieces), NonEmpty)

\* if let Some(el) = first { if let Some(text) = el.text() { .. } }
\* else if let Some(el) = second { if let Some(text) = el.text() { .. } }
TextOfFirst(first, second) ==
    IF IsSome(first) THEN Unwrap(first)
    ELSE IF IsSome(second) THEN Unwrap(second)
    ELSE None

\* A faulty variant: sets the cover from og:image whatever the manga's cover was.
ApplyDetails_cover_always(m, html) ==
    LET title == TextOfFirst(html.h1_subj, html.subj)
        authors == IF IsSome(html.author_area)
                      /\ IsSome(Unwrap(html.author_area))
                   THEN AuthorsOfPage(Unwrap(Unwrap(html.author_area)))
                   ELSE <<>>
        summary == TextOfFirst(html.p_summary, html.summary)
    IN  [m EXCEPT
           !.title = IF IsSome(title) THEN Unwrap(title) ELSE @,
           !.authors = IF authors # <<>> THEN Some(authors) ELSE @,
           !.description = IF IsSome(summary) THEN summary ELSE @,
           !.tags = IF IsSome(html.genre) /\ IsSome(Unwrap(html.genre))
                    THEN Some(<<Unwrap(Unwrap(html.genre))>>) ELSE @,
           !.cover = IF IsSome(html.og_image) /\ IsSome(Unwrap(html.og_image))
                     THEN Unwrap(html.og_image) ELSE @,
           !.status = IF html.ico_completed THEN "Completed" ELSE "Ongoing",
           !.content_rating = "Safe",
           !.viewer = "Webtoon"]

\* The needs_details block after a successful fetch (lib.rs 117-177).
ApplyDetails(m, html) ==
    LET title == TextOfFirst(html.h1_subj, html.subj)
        authors == IF IsSome(html.author_area)
                      /\ IsSome(Unwrap(html.author_area))
                   THEN AuthorsOfPage(Unwrap(Unwrap(html.author_area)))
                   ELSE <<>>
        summary == TextOfFirst(html.p_summary, html.summary)
    IN  [m EXCEPT
           !.title = IF IsSome(title) THEN Unwrap(title) ELSE @,
           !.authors = IF authors # <<>> THEN Some(authors) ELSE @,
           !.description = IF IsSome(summary) THEN summary ELSE @,
           !.tags = IF IsSome(html.genre) /\ IsSome(Unwrap(html.genre))
                    THEN Some(<<Unwrap(Unwrap(html.genre))>>) ELSE @,
           !.cover = IF m.cover = None /\ IsSome(html.og_image)
                        /\ IsSome(Unwrap(html.og_image))
                     THEN Unwrap(html.og_image) ELSE @,
           !.status = IF html.ico_completed THEN "Completed" ELSE "Ongoing",
           !.content_rating = "Safe",
           !.viewer = "Webtoon"]

\* A faulty variant: also sets the viewer kind when the chapters are fetched.
ApplyChapters_sets_viewer(m, body) ==
    [m EXCEPT !.chapters = Some(parse_episodes_json(body)),
              !.viewer = "Webtoon"]

\* manga.chapters = Some(parse_episodes_json(&body))
ApplyChapters(m, body) ==
    [m EXCEPT !.chapters = Some(parse_episodes_json(body))]

\* A faulty variant: goes on to the episode list after a failed detail request.
DetailsFailed_goes_on(m, needs_chapters, error) ==
    IF needs_chapters
    THEN [pc |-> "fetch_chapters", manga |-> Some(m), output |-> None]
    ELSE [pc |-> "get_manga_update", manga |-> None, output |-> Err(error)]

\* Request::get(&detail_url)? and .html()?: the error is returned.
DetailsFailed(m, needs_chapters, error) ==
    [pc |-> "get_manga_update", manga |-> None, output |-> Err(error)]

\* The step after the detail page has been applied.
DetailsFetched(m, needs_chapters, html) ==
    LET m2 == ApplyDetails(m, html)
    IN  IF needs_chapters
        THEN [pc |-> "fetch_chapters", manga |-> Some(m2), output |-> None]
        ELSE [pc |-> "get_manga_update", manga |-> None, output |-> Ok(m2)]

-----------------------------------------------------------------------------
(* Inputs of get_manga_update.                                             *)

\* Fields a manga has got from a listing or an earlier update, or not.
\* "/list?title_no=20", "old.jpg", "Old", "Old A", "old d", "OldG"
MangaUrls ==
    { None,
      Some(<<"/","l","i","s","t","?","t","i","t","l","e","_","n","o","=","2","0">>) }

MangaCovers == { None, Some(<<"o","l","d",".","j","p","g">>) }

OldChapter ==
    [key |-> <<"9">>, title |-> None,
     chapter_number |-> Some([neg |-> FALSE, m |-> 9, e |-> 0]),
     date_uploaded |-> None, url |-> None, thumbnail |-> None]

MangaOf(url, cover, filled) ==
    IF filled
    THEN [DefaultManga EXCEPT
            !.key = <<"2","0">>, !.title = <<"O","l","d">>,
            !.url = url, !.cover = cover,
            !.authors = Some(<< <<"O","l","d"," ","A">> >>),
            !.description = Some(<<"o","l","d"," ","d">>),
            !.tags = Some(<< <<"O","l","d","G">> >>),
            !.status = "Hiatus", !.content_rating = "NSFW",
            !.viewer = "RightToLeft",
            !.chapters = Some(<<OldChapter>>)]
    ELSE [DefaultManga EXCEPT
            !.key = <<"2","0">>, !.title = <<"O","l","d">>,
            !.url = url, !.cover = cover]

Mangas ==
    {MangaOf(url, cover, filled) :
        url \in MangaUrls, cover \in MangaCovers, filled \in BOOLEAN}

\* h1.subj and .subj: neither, only .subj, h1.subj without text, h1.subj.
\* "New", "Alt"
PageTitles ==
    { <<None, None>>,
      <<None, Some(Some(<<"A","l","t">>))>>,
      <<Some(None), Some(Some(<<"A","l","t">>))>>,
      <<Some(Some(<<"N","e","w">>)), Some(Some(<<"N","e","w">>))>> }

\* "Writer InfoA, B/C", " , /"
PageAuthors ==
    { None,
      Some(Some(<<"W","r","i","t","e","r"," ","I","n","f","o","A",","," ","B","/","C">>)),
      Some(Some(WRITER_INFO_ZH \o <<" ",","," ","/">>)) }

\* p.summary and .summary.  "sum", "alt sum"
PageSummaries ==
    { <<None, None>>,
      <<None, Some(Some(<<"a","l","t"," ","s","u","m">>))>>,
      <<Some(Some(<<"s","u","m">>)), Some(Some(<<"s","u","m">>))>> }

\* "G"
PageGenres == { None, Some(Some(<<"G">>)) }

\* "new.jpg"
PageImages == { None, Some(None), Some(Some(<<"n","e","w",".","j","p","g">>)) }

DetailPages ==
    {[h1_subj |-> t[1], subj |-> t[2], author_area |-> a,
      p_summary |-> d[1], summary |-> d[2], genre |-> g, og_image |-> i,
      ico_completed |-> c] :
        t \in PageTitles, a \in PageAuthors, d \in PageSummaries,
        g \in PageGenres, i \in PageImages, c \in BOOLEAN}

\* The bodies the mobile API answers with.
ApiResponses ==
    { [prefix |-> "list", elems |-> <<"plain1", "plain2">>, suffix |-> "closed"],
      [prefix |-> "list", elems |-> <<>>, suffix |-> "closed"],
      [prefix |-> "other_key", elems |-> <<"plain1">>, suffix |-> "closed"] }

\* What Request::get(url)? or the fetch may fail with.
RequestErrors == {"InvalidUrl", "RequestFailed"}

-----------------------------------------------------------------------------
(* get_manga_update, step by step.                                         *)

Call_get_manga_update ==
    /\ pc = "idle"
    /\ \E m \in Mangas, needs_details \in BOOLEAN, needs_chapters \in BOOLEAN :
          /\ input' = [manga |-> m, needs_details |-> needs_details,
                       needs_chapters |-> needs_chapters]
          /\ IF needs_details
             THEN pc' = "fetch_details" /\ manga' = Some(m) /\ output' = None
             ELSE IF needs_chapters
             THEN pc' = "fetch_chapters" /\ manga' = Some(m) /\ output' = None
             ELSE pc' = "get_manga_update" /\ manga' = None /\ output' = Ok(m)
    /\ requests' = <<>>

\* The detail request fails: Request::get(..)? before anything is sent, or
\* .html()? after the request was sent.
FetchDetailsFails ==
    /\ pc = "fetch_details"
    /\ \E e \in RequestErrors :
          LET url == DetailUrl(Unwrap(manga))
              step == DetailsFailed(Unwrap(manga), input.needs_chapters,
                                    [error |-> e, url |-> url])
          IN  /\ requests' = IF e = "InvalidUrl" THEN requests
                             ELSE Append(requests,
                                         Exchange("details", url, "failed", None))
              /\ pc' = step.pc
              /\ manga' = step.manga
              /\ output' = step.output
    /\ UNCHANGED input

FetchDetails ==
    /\ pc = "fetch_details"
    /\ \E html \in DetailPages :
          LET url == DetailUrl(Unwrap(manga))
              step == DetailsFetched(Unwrap(manga), input.needs_chapters, html)
          IN  /\ requests' = Append(requests,
                                     Exchange("details", url, "ok", html))
              /\ pc' = step.pc
              /\ manga' = step.manga
              /\ output' = step.output
    /\ UNCHANGED input

FetchChaptersFails ==
    /\ pc = "fetch_chapters"
    /\ \E e \in RequestErrors :
          LET url == ApiUrl(input.manga.key)
          IN  /\ requests' = IF e = "InvalidUrl" THEN requests
                             ELSE Append(requests,
                                         Exchange("episodes", url, "failed", None))
              /\ output' = Err([error |-> e, url |-> url])
    /\ pc' = "get_manga_update"
    /\ manga' = None
    /\ UNCHANGED input

FetchChapters ==
    /\ pc = "fetch_chapters"
    /\ \E r \in ApiResponses :
          LET url == ApiUrl(input.manga.key)
          IN  /\ requests' = Append(requests,
                                     Exchange("episodes", url, "ok", r))
              /\ output' = Ok(ApplyChapters(Unwrap(manga), BodyOf(r)))
    /\ pc' = "get_manga_update"
    /\ manga' = None
    /\ UNCHANGED input

NextUpdate ==
    \/ Call_get_manga_update
    \/ FetchDetailsFails
    \/ FetchDetails
    \/ FetchChaptersFails
    \/ FetchChapters
    \/ Return

SpecUpdate == InitIdle /\ [][NextUpdate]_vars

-----------------------------------------------------------------------------
(* lib.rs: get_page_list.  A viewer page is what the host's HTML queries   *)
(* answer for it: image_list whether select_first("#_imageList") finds a   *)
(* node, image_list_imgs and viewer_imgs the select(..) results of the two *)
(* image selectors; an image is its attr("data-url") and attr("src").      *)

\* "bg_transparency", "warning", "loading"
PLACEHOLDER_MARKS ==
    { <<"b","g","_","t","r","a","n","s","p","a","r","e","n","c","y">>,
      <<"w","a","r","n","i","n","g">>,
      <<"l","o","a","d","i","n","g">> }

\* url.contains("bg_transparency") || .. "warning" || .. "loading"
IsPlaceholder(url) == \E mark \in PLACEHOLDER_MARKS : str_contains(url, mark)

\* A faulty variant: prefers src to data-url.
ChosenUrl_src_first(img) ==
    IF IsSome(img.src) THEN img.src ELSE img.data_url

\* img.attr("data-url").or_else(|| img.attr("src"))
ChosenUrl(img) ==
    IF IsSome(img.data_url) THEN img.data_url ELSE img.src

\* Page { content: PageContent::url_context(&url, context), .. }
PageOf(url) ==
    [content |-> [url |-> url, context |-> [Referer |-> BASE_URL]]]

\* The loop over the selected images.
RECURSIVE PushPages(_, _)
PushPages(imgs, pages) ==
    IF imgs = <<>> THEN pages
    ELSE LET img_url == ChosenUrl(Head(imgs))
         IN  PushPages(Tail(imgs),
                 IF IsSome(img_url) /\ ~IsPlaceholder(Unwrap(img_url))
                 THEN Append(pages, PageOf(Unwrap(img_url)))
                 ELSE pages)

\* The images of the selector get_page_list picks.
SelectedImages(html) ==
    IF html.image_list THEN html.image_list_imgs ELSE html.viewer_imgs

PagesOfViewer(html) ==
    LET images == SelectedImages(html)
    IN  IF IsSome(images) THEN PushPages(Unwrap(images), <<>>) ELSE <<>>

ViewerUrl(chapter) ==
    IF IsSome(chapter.url) THEN Unwrap(chapter.url) ELSE chapter.key

\* "/a.jpg", "/loading.gif"
ImgDataUrls ==
    { None, Some(<<"/","a",".","j","p","g">>),
      Some(<<"/","l","o","a","d","i","n","g",".","g","i","f">>) }

\* "/b.jpg", "/bg_transparency.png", "/warning.png"
ImgSrcs ==
    { None, Some(<<"/","b",".","j","p","g">>),
      Some(<<"/","b","g","_","t","r","a","n","s","p","a","r","e","n","c","y",".","p","n","g">>),
      Some(<<"/","w","a","r","n","i","n","g",".","p","n","g">>) }

Imgs == [data_url : ImgDataUrls, src : ImgSrcs]

ImgLists == UNION {[1..n -> Imgs] : n \in 0..MaxImages}

\* "/decoy.jpg": an image only the selector that is not picked matches.
DecoyImgs == Some(<< [data_url |-> None,
                      src |-> Some(<<"/","d","e","c","o","y",".","j","p","g">>)] >>)

ViewerPageOf(image_list, selected) ==
    IF image_list
    THEN [image_list |-> TRUE, image_list_imgs |-> selected,
          viewer_imgs |-> DecoyImgs]
    ELSE [image_list |-> FALSE, image_list_imgs |-> None,
          viewer_imgs |-> selected]

ViewerPages ==
    {ViewerPageOf(il, sel) :
        il \in BOOLEAN, sel \in {None} \cup {Some(l) : l \in ImgLists}}

\* "/viewer?episode_no=1", "k1"
PageListChapters ==
    { [key |-> <<"k","1">>,
       url |-> Some(<<"/","v","i","e","w","e","r","?","e","p","i","s","o","d","e","_","n","o","=","1">>)],
      [key |-> <<"k","1">>, url |-> None] }

Call_get_page_list_fails ==
    /\ pc = "idle"
    /\ \E chapter \in PageListChapters, e \in RequestErrors :
          LET url == ViewerUrl(chapter)
          IN  /\ input' = [chapter |-> chapter]
              /\ requests' = IF e = "InvalidUrl" THEN <<>>
                             ELSE <<Exchange("viewer", url, "failed", None)>>
              /\ output' = Err([error |-> e, url |-> url])
    /\ pc' = "get_page_list"
    /\ UNCHANGED manga

Call_get_page_list ==
    /\ pc = "idle"
    /\ \E chapter \in PageListChapters, html \in ViewerPages :
          /\ input' = [chapter |-> chapter]
          /\ requests' = <<Exchange("viewer", ViewerUrl(chapter), "ok", html)>>
          /\ output' = Ok(PagesOfViewer(html))
    /\ pc' = "get_page_list"
    /\ UNCHANGED manga

NextPages ==
    \/ Call_get_page_list_fails
    \/ Call_get_page_list
    \/ Return

SpecPages == InitIdle /\ [][NextPages]_vars

-----------------------------------------------------------------------------
(* lib.rs: fetch_manga_list and get_manga_list.  A listing page is the     *)
(* select("ul.webtoon_list li a.link") result and whether                  *)
(* select_first(".pg_next") finds a node.                                  *)

POPULAR == <<"p","o","p","u","l","a","r">>

\* "monday" .. "sunday", "complete"
DAY_LISTINGS ==
    { <<"m","o","n","d","a","y">>,
      <<"t","u","e","s","d","a","y">>,
      <<"w","e","d","n","e","s","d","a","y">>,
      <<"t","h","u","r","s","d","a","y">>,
      <<"f","r","i","d","a","y">>,
      <<"s","a","t","u","r","d","a","y">>,
      <<"s","u","n","d","a","y">>,
      <<"c","o","m","p","l","e","t","e">> }

\* "Unknown listing: "
UNKNOWN_LISTING ==
    <<"U","n","k","n","o","w","n"," ","l","i","s","t","i","n","g",":"," ">>

\* A faulty variant: leaves "complete" out of the recognized listings.
ListingTarget_without_complete(id, page) ==
    IF id = POPULAR
    THEN [kind |-> "fetch",
          url |-> BASE_URL \o LANG_PATH
                  \o <<"/","r","a","n","k","i","n","g","?","s","o","r","t","O","r","d","e","r","=","M","A","N","A","&","p","a","g","e","=">>
                  \o I32ToText(page)]
    ELSE IF id \in DAY_LISTINGS \ {<<"c","o","m","p","l","e","t","e">>}
    THEN IF page > 1 THEN [kind |-> "empty"]
         ELSE [kind |-> "fetch",
               url |-> BASE_URL \o LANG_PATH
                       \o <<"/","o","r","i","g","i","n","a","l","s","/">> \o id
                       \o <<"?","s","o","r","t","O","r","d","e","r","=","M","A","N","A">>]
    ELSE [kind |-> "unknown",
          message |-> UNKNOWN_LISTING \o id]

\* The match of get_manga_list on listing.id: a URL to fetch, an early empty
\* result, or bail!("Unknown listing: {}", listing.id).
ListingTarget(id, page) ==
    IF id = POPULAR
    THEN [kind |-> "fetch",
          url |-> BASE_URL \o LANG_PATH
                  \o <<"/","r","a","n","k","i","n","g","?","s","o","r","t","O","r","d","e","r","=","M","A","N","A","&","p","a","g","e","=">>
                  \o I32ToText(page)]
    ELSE IF id \in DAY_LISTINGS
    THEN IF page > 1 THEN [kind |-> "empty"]
         ELSE [kind |-> "fetch",
               url |-> BASE_URL \o LANG_PATH
                       \o <<"/","o","r","i","g","i","n","a","l","s","/">> \o id
                       \o <<"?","s","o","r","t","O","r","d","e","r","=","M","A","N","A">>]
    ELSE [kind |-> "unknown",
          message |-> UNKNOWN_LISTING \o id]

\* entries.push(manga) for each item that parses.
RECURSIVE PushMangas(_, _)
PushMangas(items, entries) ==
    IF items = <<>> THEN entries
    ELSE LET m == parse_manga_item(Head(items))
         IN  PushMangas(Tail(items),
                        IF IsSome(m) THEN Append(entries, Unwrap(m))
                        ELSE entries)

\* fetch_manga_list after a successful fetch: (entries, has_next_page).
fetch_manga_list(html) ==
    [entries |-> IF IsSome(html.items)
                 THEN PushMangas(Unwrap(html.items), <<>>) ELSE <<>>,
     has_next_page |-> html.pg_next]

\* "Popular", "completed", "daily", ""
ListingIds ==
    {POPULAR} \cup DAY_LISTINGS
    \cup { <<"P","o","p","u","l","a","r">>,
           <<"c","o","m","p","l","e","t","e","d">>,
           <<"d","a","i","l","y">>,
           <<>> }

ListingPageNumbers == {0, 1, 2, 3}

\* An item with a title and a data-title-no, one with a title and a title_no
\* in its href only, one without a title.
ListingItems ==
    { [href |-> Some(<<"/","l","i","s","t","?","t","i","t","l","e","_","n","o","=","2","0">>),
       data_title_no |-> Some(<<"9","9">>), title |-> Some(Some(<<"T">>)),
       cover |-> None, author |-> None, genre |-> None],
      [href |-> Some(<<"/","l","i","s","t","?","t","i","t","l","e","_","n","o","=","2","0">>),
       data_title_no |-> None, title |-> Some(Some(<<"T">>)),
       cover |-> None, author |-> None, genre |-> None],
      [href |-> Some(<<"/","l","i","s","t">>),
       data_title_no |-> Some(<<"9","9">>), title |-> None,
       cover |-> None, author |-> None, genre |-> None] }

ListingPages ==
    [items : {None} \cup {Some(l) : l \in UNION {[1..n -> ListingItems] :
                                                    n \in 0..MaxItems}},
     pg_next : BOOLEAN]

\* get_manga_list: the match on the listing id, then fetch_manga_list.
Call_get_manga_list ==
    /\ pc = "idle"
    /\ \E id \in ListingIds, page \in ListingPageNumbers :
          LET target == ListingTarget(id, page)
          IN  /\ input' = [listing |-> [id |-> id], page |-> page]
              /\ \/ /\ target.kind = "unknown"
                    /\ requests' = <<>>
                    /\ output' = Err([message |-> target.message])
                 \/ /\ target.kind = "empty"
                    /\ requests' = <<>>
                    /\ output' = Ok([entries |-> <<>>, has_next_page |-> FALSE])
                 \/ /\ target.kind = "fetch"
                    /\ \E e \in RequestErrors :
                          /\ requests' =
                                IF e = "InvalidUrl" THEN <<>>
                                ELSE <<Exchange("listing", target.url,
                                                "failed", None)>>
                          /\ output' = Err([error |-> e, url |-> target.url])
                 \/ /\ target.kind = "fetch"
                    /\ \E html \in ListingPages :
                          /\ requests' = <<Exchange("listing", target.url,
                                                    "ok", html)>>
                          /\ output' = Ok(fetch_manga_list(html))
    /\ pc' = "get_manga_list"
    /\ UNCHANGED manga

NextListing ==
    \/ Call_get_manga_list
    \/ Return

SpecListing == InitIdle /\ [][NextListing]_vars

-----------------------------------------------------------------------------
(* C3.  extract_title_no is none when the URL does not contain             *)
(* "title_no="; otherwise it is the text that starts right after the first *)
(* "title_no=" and runs up to, not including, the next '&', or to the end  *)
(* of the URL when no '&' follows.                                         *)
C3_ExtractTitleNo ==
    pc = "extract_title_no" =>
        LET url == input
            occ == {i \in 0..Len(url) : MatchesAt(url, TITLE_NO_KEY, i)}
        IN  IF occ = {} THEN output = None
            ELSE /\ IsSome(output)
                 /\ LET v == Unwrap(output)
                        a == SetMin(occ) + Len(TITLE_NO_KEY)
                    IN  /\ a + Len(v) <= Len(url)
                        /\ \A k \in 1..Len(v) : v[k] = url[a + k] /\ v[k] # "&"
                        /\ a + Len(v) = Len(url) \/ url[a + Len(v) + 1] = "&"

\* A URL with two title_no parameters, the first one cut at its '&'.
C3_Witness ==
    /\ pc = "extract_title_no"
    /\ Cardinality({i \in 0..Len(input) : MatchesAt(input, TITLE_NO_KEY, i)}) = 2
    /\ output = Some(<<"2","0">>)
    /\ Len(input) > SetMin({i \in 0..Len(input) :
                               MatchesAt(input, TITLE_NO_KEY, i)}) + 11

(* C4.  parse_manga_item returns nothing when the title node is missing or *)
(* its text is empty, and nothing when there is neither a data-title-no    *)
(* attribute nor a title_no parameter in the href; a returned manga's key  *)
(* is the data-title-no attribute when present, and the href's title_no    *)
(* only when the attribute is absent.                                      *)
C4_MangaItem ==
    pc = "parse_manga_item" =>
        LET item == input
            no_title == \/ item.title = None
                        \/ item.title = Some(None)
                        \/ item.title = Some(Some(<<>>))
            href_no == IF item.href = None THEN None
                       ELSE extract_title_no(Unwrap(item.href))
        IN  /\ no_title => output = None
            /\ (item.data_title_no = None /\ href_no = None) => output = None
            /\ IsSome(output) =>
                  Unwrap(output).key =
                      IF IsSome(item.data_title_no)
                      THEN Unwrap(item.data_title_no) ELSE Unwrap(href_no)

\* A manga whose href carries title_no=20 and whose attribute says 99.
C4_Witness ==
    /\ pc = "parse_manga_item"
    /\ IsSome(output)
    /\ input.data_title_no = Some(<<"9","9">>)
    /\ extract_title_no(Unwrap(input.href)) = Some(<<"2","0">>)


-----------------------------------------------------------------------------
(* The episode number written in each kind of element object.              *)
ElemHasNo(kind) == kind # "untitled_no"

ElemNo(kind) ==
    CASE kind = "plain1" -> 1
      [] kind = "plain2" -> 2
      [] kind = "nested" -> 3
      [] kind = "brace_in_text" -> 5

\* The elements of the first "episodeList" array of a generated response.
ListedElems(r) == IF r.prefix = "list" THEN r.elems ELSE <<>>

BracesBalanced(r) ==
    \A i \in 1..Len(r.elems) : r.elems[i] # "brace_in_text"

(* C1 as stated.  parse_episodes_json: for a body whose "episodeList"      *)
(* array holds N element objects, the result has exactly N chapter records *)
(* and they are in the reverse of the array order.                         *)
C1_Original ==
    (pc = "parse_episodes_json" /\ input.prefix # "other_key") =>
        LET elems == ListedElems(input)
            n == Len(elems)
        IN  /\ Len(output) = n
            /\ \A i \in 1..n :
                  ElemHasNo(elems[n + 1 - i]) =>
                      output[i].chapter_number =
                          Some([neg |-> FALSE, m |-> ElemNo(elems[n + 1 - i]),
                                e |-> 0])

(* C1 as amended.  parse_episodes_json: for a body whose "episodeList"     *)
(* array holds element objects with no brace inside a string value, the    *)
(* result has exactly one chapter record for each element object that has  *)
(* an episodeNo number, an element object without one contributes no       *)
(* record, and the records are in the reverse of the array order.          *)
C1_OneRecordPerNumberedEpisode ==
    (pc = "parse_episodes_json" /\ input.prefix # "other_key"
                                /\ BracesBalanced(input)) =>
        LET kept == SelectSeq(ListedElems(input), ElemHasNo)
            n == Len(kept)
        IN  /\ Len(output) = n
            /\ \A i \in 1..n :
                  /\ output[i].chapter_number =
                         Some([neg |-> FALSE, m |-> ElemNo(kept[n + 1 - i]),
                               e |-> 0])
                  /\ Some(output[i]) =
                         parse_single_episode(ElemText(kept[n + 1 - i]))

\* Three element objects, the middle one without episodeNo: two records,
\* the last element's first.
C1_Witness ==
    /\ pc = "parse_episodes_json"
    /\ input.prefix = "list"
    /\ input.elems = <<"plain1", "untitled_no", "nested">>
    /\ Len(output) = 2
    /\ output[1].chapter_number = Some([neg |-> FALSE, m |-> 3, e |-> 0])

-----------------------------------------------------------------------------
(* The value of an f32 that holds a converted i32, as a decimal magnitude. *)
RECURSIVE DoubleMag(_, _)
DoubleMag(mag, carry) ==
    IF mag = <<>> THEN (IF carry = 0 THEN <<>> ELSE <<carry>>)
    ELSE LET d == 2 * mag[Len(mag)] + carry
         IN  DoubleMag(SubSeq(mag, 1, Len(mag) - 1), d \div 10) \o <<d % 10>>

RECURSIVE NatMag(_)
NatMag(a) == IF a < 10 THEN <<a>> ELSE NatMag(a \div 10) \o <<a % 10>>

RECURSIVE ScaledMag(_, _)
ScaledMag(mag, e) == IF e = 0 THEN mag ELSE ScaledMag(DoubleMag(mag, 0), e - 1)

F32Mag(f) == ScaledMag(NatMag(f.m), f.e)

\* The digits of an unsigned decimal text.
TextMag(t) == [k \in 1..Len(t) |-> DigitValue(t[k])]

\* exposureDateMillis integer-divided by 1000, for the generated values.
ExpectedSeconds(ms) ==
    CASE ms = <<"1","5","0","0">> -> [neg |-> FALSE, mag |-> <<1>>]
      [] ms = <<"-","1","5","0","0">> -> [neg |-> TRUE, mag |-> <<1>>]
      [] ms = <<"1","7","0","0","0","0","0","0","0","0","9","9","9">> ->
             [neg |-> FALSE, mag |-> <<1,7,0,0,0,0,0,0,0,0>>]

(* C2.  parse_single_episode: the record's url is                          *)
(* "https://www.webtoons.com" followed by the viewerLink value, its        *)
(* thumbnail is "https://webtoon-phinf.pstatic.net" followed by the        *)
(* thumbnail value, its date_uploaded is exposureDateMillis integer-       *)
(* divided by 1000, and its chapter number is the episodeNo value; an      *)
(* absent field leaves the record's field unset; the key is the absolute   *)
(* viewer URL when viewerLink is present and the decimal episodeNo         *)
(* otherwise.                                                              *)
C2_EpisodeFields ==
    (pc = "parse_single_episode" /\ IsSome(output)) =>
        LET d == input
            c == Unwrap(output)
        IN  /\ c.url = IF d.link = None THEN None
                       ELSE Some(BASE_URL_HELPER \o Unwrap(d.link))
            /\ c.thumbnail = IF d.thumb = None THEN None
                             ELSE Some(THUMB_CDN_HELPER \o Unwrap(d.thumb))
            /\ c.date_uploaded = IF d.ms = None THEN None
                                 ELSE Some(ExpectedSeconds(Unwrap(d.ms)))
            /\ IsSome(c.chapter_number)
            /\ ~Unwrap(c.chapter_number).neg
            /\ F32Mag(Unwrap(c.chapter_number)) = TextMag(Unwrap(d.no))
            /\ c.key = IF d.link = None THEN Unwrap(d.no)
                       ELSE BASE_URL_HELPER \o Unwrap(d.link)

-----------------------------------------------------------------------------
(* The segmentation of a body, stated on its text.  A mark is a '{', '}'   *)
(* or ']' at or after the '[' of the first "episodeList":[ ; the depth at  *)
(* an offset is the number of '{' less the number of '}' between that '['  *)
(* and the offset.                                                         *)
ListStart(body) ==
    SetMin({i \in 0..Len(body) : MatchesAt(body, EPISODE_LIST_KEY, i)}) + 14

\* start: the offset of that '['.  stop: the offset of the first ']' at
\* depth 0, or the length of the body.  blocks: the top-level blocks <<a, b>>,
\* a '{' at depth 0 at offset a and its matching '}' at offset b, both before
\* the stop.
Segmentation(body) ==
    LET start == ListStart(body)
        marks == {j \in start..(Len(body) - 1) : IsMark(body[j + 1])}
        depth == [j \in marks |->
                    Cardinality({k \in marks : k < j /\ body[k + 1] = "{"})
                    - Cardinality({k \in marks : k < j /\ body[k + 1] = "}"})]
        stops == {j \in marks : body[j + 1] = "]" /\ depth[j] = 0}
        stop == IF stops = {} THEN Len(body) ELSE SetMin(stops)
        opens == {j \in marks : j < stop /\ body[j + 1] = "{" /\ depth[j] = 0}
        closes == [j \in opens |->
                     {k \in marks : /\ j < k
                                    /\ k < stop
                                    /\ body[k + 1] = "}"
                                    /\ depth[k] = 1}]
    IN  [start |-> start,
         stop |-> stop,
         blocks |-> {<<j, SetMin(closes[j])>> :
                         j \in {o \in opens : closes[o] # {}}}]

(* C9.  parse_episodes_json scans from the '[' of the first                *)
(* "episodeList":[ and stops at the first ']' met at brace depth 0; every  *)
(* top-level '{'...'}' block before that point is handed to the episode    *)
(* parser as one substring from its opening brace to its matching closing  *)
(* brace; a '{', '}' or ']' inside an element object neither ends the scan *)
(* nor starts a record of its own; no text after the terminating ']'       *)
(* contributes a record; a body without the key yields an empty list.      *)
C9_Segmentation ==
    pc = "parse_episodes_json" =>
        LET body == BodyOf(input)
            handed == EpisodeObjects(body)
        IN  IF str_find(body, EPISODE_LIST_KEY) = None
            THEN handed = <<>> /\ output = <<>>
            ELSE LET seg == Segmentation(body)
                     blocks == seg.blocks
                 IN  /\ body[seg.start + 1] = "["
                     /\ \A blk \in blocks :
                           seg.start < blk[1] /\ blk[2] < seg.stop
                     /\ Len(handed) = Cardinality(blocks)
                     /\ \A k \in 1..Len(handed) :
                           \E blk \in blocks :
                              /\ Cardinality({b \in blocks : b[1] < blk[1]})
                                     = k - 1
                              /\ handed[k] = Slice(body, blk[1], blk[2] + 1)
                     /\ Len(output) <= Len(handed)
                     /\ \A i \in 1..Len(output) :
                           \E k \in 1..Len(handed) :
                              Some(output[i]) = parse_single_episode(handed[k])

\* An element with a nested object and array, then a plain one, then text
\* with a further object after the end of the list: two records.
C9_Witness ==
    /\ pc = "parse_episodes_json"
    /\ input = [prefix |-> "list", elems |-> <<"nested", "plain1">>,
                suffix |-> "more_objects"]
    /\ Len(output) = 2
    /\ Len(EpisodeObjects(BodyOf(input))) = 2


-----------------------------------------------------------------------------
(* get_manga_update: the positions of the exchanges with one endpoint, and *)
(* whether the operation is running or has returned.                       *)
ExchangesTo(to) == {i \in 1..Len(requests) : requests[i].to = to}

InUpdate == pc \in {"fetch_details", "fetch_chapters", "get_manga_update"}

(* C6.  get_manga_update surfaces the first request failure and never      *)
(* retries: with needs_details and needs_chapters both set the detail-page *)
(* request is issued before the episode-list request; if the detail        *)
(* request fails the operation returns that error and the episode-list     *)
(* request is never issued; each of the two requests is issued at most     *)
(* once in a run.                                                          *)
C6_FirstFailureNoRetry ==
    InUpdate =>
        /\ Cardinality(ExchangesTo("details")) <= 1
        /\ Cardinality(ExchangesTo("episodes")) <= 1
        /\ \A i \in ExchangesTo("episodes"), j \in ExchangesTo("details") :
              j < i
        /\ (input.needs_details /\ ExchangesTo("episodes") # {}) =>
              \E j \in ExchangesTo("details") : requests[j].status = "ok"
        /\ \A j \in 1..Len(requests) :
              requests[j].status = "failed" =>
                  /\ j = Len(requests)
                  /\ pc = "get_manga_update"
                  /\ output = Err([error |-> "RequestFailed",
                                   url |-> requests[j].url])
        /\ (pc = "get_manga_update" /\ ~output.ok
                /\ output.error.url = DetailUrl(input.manga)) =>
              ExchangesTo("episodes") = {}

\* Both flags set, the detail request failed: the error is returned and the
\* detail request is the only one issued.
C6_Witness ==
    /\ pc = "get_manga_update"
    /\ input.needs_details /\ input.needs_chapters
    /\ Len(requests) = 1
    /\ requests[1].to = "details"
    /\ requests[1].status = "failed"
    /\ ~output.ok

-----------------------------------------------------------------------------
(* What a detail page supplies for each field.                             *)
SuppliedText(first, second) ==
    IF first # None THEN Unwrap(first)
    ELSE IF second # None THEN Unwrap(second)
    ELSE None

\* The author names of the generated author texts.
SuppliedAuthors(author_area) ==
    IF author_area =
           Some(Some(<<"W","r","i","t","e","r"," ","I","n","f","o","A",","," ","B","/","C">>))
    THEN Some(<< <<"A">>, <<"B">>, <<"C">> >>)
    ELSE None

SuppliedTags(genre) ==
    IF genre # None /\ Unwrap(genre) # None
    THEN Some(<<Unwrap(Unwrap(genre))>>) ELSE None

SuppliedCover(og_image) ==
    IF og_image # None THEN Unwrap(og_image) ELSE None

\* A successful detail fetch is on record, and the manga it was applied to
\* is at hand: still being updated, or returned.
DetailsApplied ==
    /\ InUpdate
    /\ input.needs_details
    /\ Len(requests) >= 1
    /\ requests[1].to = "details"
    /\ requests[1].status = "ok"
    /\ pc = "get_manga_update" => output.ok

UpdatedManga == IF pc = "get_manga_update" THEN output.value ELSE Unwrap(manga)

\* title, authors, description, tags and status after a detail fetch.
DetailsOverwritten(html, m) ==
    /\ SuppliedText(html.h1_subj, html.subj) # None =>
          m.title = Unwrap(SuppliedText(html.h1_subj, html.subj))
    /\ SuppliedAuthors(html.author_area) # None =>
          m.authors = SuppliedAuthors(html.author_area)
    /\ SuppliedText(html.p_summary, html.summary) # None =>
          m.description = SuppliedText(html.p_summary, html.summary)
    /\ SuppliedTags(html.genre) # None => m.tags = SuppliedTags(html.genre)
    /\ m.status = IF html.ico_completed THEN "Completed" ELSE "Ongoing"

(* C7 as stated.  get_manga_update with needs_details set and a successful *)
(* detail fetch overwrites each of title, authors, description, tags and   *)
(* cover with the value the detail page supplies for it, whatever the      *)
(* manga's previous value of that field was, and sets status to Completed  *)
(* when the page has the completed marker and to Ongoing otherwise.        *)
C7_Original ==
    DetailsApplied =>
        LET html == requests[1].response
        IN  /\ DetailsOverwritten(html, UpdatedManga)
            /\ SuppliedCover(html.og_image) # None =>
                  UpdatedManga.cover = SuppliedCover(html.og_image)

(* C7 as amended.  get_manga_update with needs_details set and a           *)
(* successful detail fetch overwrites each of title, authors, description  *)
(* and tags with the value the detail page supplies for it, whatever the   *)
(* manga's previous value of that field was; it sets the cover to the      *)
(* page's value only when the manga had no cover, and keeps a cover the    *)
(* manga already had; it sets status to Completed when the page has the    *)
(* completed marker and to Ongoing otherwise.                              *)
C7_DetailsOverwriteExceptCover ==
    DetailsApplied =>
        LET html == requests[1].response
        IN  /\ DetailsOverwritten(html, UpdatedManga)
            /\ input.manga.cover # None =>
                  UpdatedManga.cover = input.manga.cover
            /\ (input.manga.cover = None
                    /\ SuppliedCover(html.og_image) # None) =>
                  UpdatedManga.cover = SuppliedCover(html.og_image)

\* A manga with a cover and old values, a page with a title, authors, a
\* summary, a genre and an og:image: all are overwritten but the cover.
C7_Witness ==
    /\ DetailsApplied
    /\ pc = "get_manga_update"
    /\ input.manga.cover = Some(<<"o","l","d",".","j","p","g">>)
    /\ input.manga.authors # None
    /\ requests[1].response.og_image = Some(Some(<<"n","e","w",".","j","p","g">>))
    /\ output.value.cover = input.manga.cover
    /\ output.value.title = <<"N","e","w">>
    /\ output.value.authors = Some(<< <<"A">>, <<"B">>, <<"C">> >>)
    /\ output.value.description = Some(<<"s","u","m">>)
    /\ output.value.tags = Some(<< <<"G">> >>)

(* C10.  get_manga_update frame: when needs_details is false no field of   *)
(* the manga other than chapters differs between the input and the         *)
(* returned manga; when needs_chapters is false too, no HTTP request is    *)
(* issued and the manga is returned unchanged; when needs_chapters is      *)
(* false the chapters field is left as it was.                             *)
C10_Frame ==
    InUpdate =>
        /\ (~input.needs_details /\ ~input.needs_chapters) =>
              /\ requests = <<>>
              /\ pc = "get_manga_update"
              /\ output = Ok(input.manga)
        /\ (pc = "get_manga_update" /\ output.ok) =>
              /\ ~input.needs_details =>
                    \A f \in (DOMAIN DefaultManga) \ {"chapters"} :
                        output.value[f] = input.manga[f]
              /\ ~input.needs_chapters =>
                    output.value.chapters = input.manga.chapters

\* Only the chapters were asked for: they are replaced and the rest of a
\* filled manga is as it was.
C10_Witness ==
    /\ pc = "get_manga_update"
    /\ ~input.needs_details /\ input.needs_chapters
    /\ output.ok
    /\ input.manga.chapters = Some(<<OldChapter>>)
    /\ Len(Unwrap(output.value.chapters)) = 2
    /\ output.value.viewer = "RightToLeft"


-----------------------------------------------------------------------------
(* Whether a text contains another, stated on offsets.                     *)
Occurs(pat, text) == \E i \in 0..Len(text) : MatchesAt(text, pat, i)

MarkFree(url) ==
    /\ ~Occurs(<<"b","g","_","t","r","a","n","s","p","a","r","e","n","c","y">>, url)
    /\ ~Occurs(<<"w","a","r","n","i","n","g">>, url)
    /\ ~Occurs(<<"l","o","a","d","i","n","g">>, url)

\* The URL the claim picks for an image: data-url when present, else src.
PreferredUrl(img) == IF img.data_url # None THEN img.data_url ELSE img.src

KeptImage(img) ==
    PreferredUrl(img) # None /\ MarkFree(Unwrap(PreferredUrl(img)))

(* C5.  get_page_list returns, in document order, exactly the selected     *)
(* images whose chosen URL exists and contains none of "bg_transparency",  *)
(* "warning", "loading", the chosen URL of an image being its data-url     *)
(* attribute when present and its src attribute only otherwise; no         *)
(* returned page URL contains one of the three texts, and each returned    *)
(* page carries a Referer request-context header.                          *)
C5_PageList ==
    (pc = "get_page_list" /\ output.ok) =>
        LET html == requests[1].response
            picked == IF html.image_list THEN html.image_list_imgs
                      ELSE html.viewer_imgs
            kept == IF picked = None THEN <<>>
                    ELSE SelectSeq(Unwrap(picked), KeptImage)
            pages == output.value
        IN  /\ Len(pages) = Len(kept)
            /\ \A i \in 1..Len(pages) :
                  /\ pages[i].content.url = Unwrap(PreferredUrl(kept[i]))
                  /\ MarkFree(pages[i].content.url)
                  /\ "Referer" \in DOMAIN pages[i].content.context

\* Two images: the first has a loading data-url and a good src, the second
\* a good data-url and a warning src.  Only the second gives a page.
C5_Witness ==
    /\ pc = "get_page_list"
    /\ output.ok
    /\ requests[1].response.image_list
    /\ requests[1].response.image_list_imgs =
          Some(<< [data_url |-> Some(<<"/","l","o","a","d","i","n","g",".","g","i","f">>),
                   src |-> Some(<<"/","b",".","j","p","g">>)],
                  [data_url |-> Some(<<"/","a",".","j","p","g">>),
                   src |-> Some(<<"/","w","a","r","n","i","n","g",".","p","n","g">>)] >>)
    /\ Len(output.value) = 1
    /\ output.value[1].content.url = <<"/","a",".","j","p","g">>

\* The nine listing ids the facade knows.
RecognizedListing(id) ==
    \/ id = <<"p","o","p","u","l","a","r">>
    \/ id = <<"m","o","n","d","a","y">>
    \/ id = <<"t","u","e","s","d","a","y">>
    \/ id = <<"w","e","d","n","e","s","d","a","y">>
    \/ id = <<"t","h","u","r","s","d","a","y">>
    \/ id = <<"f","r","i","d","a","y">>
    \/ id = <<"s","a","t","u","r","d","a","y">>
    \/ id = <<"s","u","n","d","a","y">>
    \/ id = <<"c","o","m","p","l","e","t","e">>

IsUnknownListingError(out) ==
    /\ ~out.ok
    /\ "message" \in DOMAIN out.error
    /\ Occurs(<<"U","n","k","n","o","w","n"," ","l","i","s","t","i","n","g">>,
              out.error.message)

(* C8.  get_manga_list fails with the "Unknown listing" error for every    *)
(* listing id other than "popular", the seven weekday names and            *)
(* "complete", and does so without issuing any HTTP request; for each of   *)
(* those nine ids it never returns that error.                             *)
C8_UnknownListing ==
    pc = "get_manga_list" =>
        IF RecognizedListing(input.listing.id)
        THEN ~IsUnknownListingError(output)
        ELSE /\ IsUnknownListingError(output)
             /\ requests = <<>>

\* "completed" is not a listing: the error names it and nothing was fetched.
C8_Witness ==
    /\ pc = "get_manga_list"
    /\ input.listing.id = <<"c","o","m","p","l","e","t","e","d">>
    /\ ~output.ok
    /\ output.error.message =
          <<"U","n","k","n","o","w","n"," ","l","i","s","t","i","n","g",":"," ","c","o","m","p","l","e","t","e","d">>
    /\ requests = <<>>

=============================================================================
